---- MODULE Spec2Model ----
(***************************************************************************)
(* fast-jwt signer (src/signer.js): createSigner validates its options and *)
(* returns either a synchronous or an asynchronous signJwt; signJwt builds *)
(* the header and payload segments, obtains the signature and joins the    *)
(* three segments with dots.                                               *)
(*                                                                         *)
(* Text is a sequence of character codes (ASCII), so that JSON.stringify,  *)
(* base64 and base64url act on real characters.  A JavaScript value is a   *)
(* record [t, n, s, o]: t the kind, n the number (or the boolean as 0/1),  *)
(* s the characters of a string or the bytes of a buffer, o the entries    *)
(* <<[k, v], ...>> of an object in insertion order (or the elements of an  *)
(* array, k unused).                                                       *)
(***************************************************************************)
EXTENDS Integers, Sequences, FiniteSets, TLC

\* ------------------------------------------------------------ bounds

\* Number of times the clock may advance during a behaviour.
MaxTicks == 1

\* ------------------------------------------------------------ JavaScript values

V(t, n, s, o) == [t |-> t, n |-> n, s |-> s, o |-> o]

Undef     == V("undefined", 0, <<>>, <<>>)
Null      == V("null", 0, <<>>, <<>>)
Bool(b)   == V("boolean", IF b THEN 1 ELSE 0, <<>>, <<>>)
Num(n)    == V("number", n, <<>>, <<>>)
Str(s)    == V("string", 0, s, <<>>)
Buf(s)    == V("buffer", 0, s, <<>>)
Func      == V("function", 0, <<>>, <<>>)
Obj(es)   == V("object", 0, <<>>, es)
Arr(xs)   == V("array", 0, <<>>, [i \in 1..Len(xs) |-> [k |-> <<>>, v |-> xs[i]]])
E(k, v)   == [k |-> k, v |-> v]

\* typeof v
TypeOf(v) ==
  IF v.t \in {"null", "buffer", "object", "array"} THEN "object" ELSE v.t

\* ToBoolean(v): what `if (v)`, `!v` and `v && ...` test
Truthy(v) ==
  CASE v.t \in {"undefined", "null"} -> FALSE
    [] v.t = "boolean" -> v.n = 1
    [] v.t = "number" -> v.n # 0
    [] v.t = "string" -> v.s # <<>>
    [] OTHER -> TRUE

IsBuffer(v) == v.t = "buffer"
IsArray(v) == v.t = "array"

\* ------------------------------------------------------------ objects

RECURSIVE IndexOfKey(_, _, _)
IndexOfKey(es, k, i) ==
  IF i > Len(es) THEN 0
  ELSE IF es[i].k = k THEN i
  ELSE IndexOfKey(es, k, i + 1)

HasKey(es, k) == IndexOfKey(es, k, 1) # 0

\* obj[k]: the value of an own property, undefined when there is none
Get(es, k) == IF HasKey(es, k) THEN es[IndexOfKey(es, k, 1)].v ELSE Undef

\* obj[k] = v: an existing property keeps its position, a new one is appended
Put(es, k, v) ==
  IF HasKey(es, k)
  THEN [es EXCEPT ![IndexOfKey(es, k, 1)] = E(k, v)]
  ELSE Append(es, E(k, v))

\* Own enumerable properties copied by a spread or by Object.assign: those of
\* an object; null, undefined, numbers, booleans and '' contribute none.
OwnEntries(v) == IF v.t = "object" THEN v.o ELSE <<>>

RECURSIVE AssignEntries(_, _)
AssignEntries(target, src) ==
  IF src = <<>> THEN target
  ELSE AssignEntries(Put(target, Head(src).k, Head(src).v), Tail(src))

Keys(es) == {es[i].k : i \in 1..Len(es)}

\* ------------------------------------------------------------ text

RECURSIVE Dec(_)
Dec(n) == IF n < 10 THEN <<48 + n>> ELSE Dec(n \div 10) \o <<48 + (n % 10)>>

\* Number -> decimal text (integers)
NumText(n) == IF n < 0 THEN <<45>> \o Dec(0 - n) ELSE Dec(n)

Quote(s) == <<34>> \o s \o <<34>>

RECURSIVE Join(_, _)
Join(parts, sep) ==
  IF parts = <<>> THEN <<>>
  ELSE IF Len(parts) = 1 THEN parts[1]
  ELSE parts[1] \o sep \o Join(Tail(parts), sep)

\* JSON.stringify omits the properties whose value is undefined or a function
JsonVisible(v) == v.t \notin {"undefined", "function"}

JsonEntries(es) == SelectSeq(es, LAMBDA e : JsonVisible(e.v))

\* JSON.stringify of a value nested at most two levels (strings hold no
\* character that needs escaping)
ScalarText(v) ==
  CASE v.t = "number" -> NumText(v.n)
    [] v.t = "string" -> Quote(v.s)
    [] v.t = "boolean" -> IF v.n = 1 THEN <<116, 114, 117, 101>> ELSE <<102, 97, 108, 115, 101>>
    [] OTHER -> <<110, 117, 108, 108>>

ElementText(v) ==
  CASE v.t = "array" ->
         <<91>> \o Join([i \in 1..Len(v.o) |-> ScalarText(v.o[i].v)], <<44>>) \o <<93>>
    [] v.t = "object" ->
         LET es == JsonEntries(v.o)
         IN <<123>> \o Join([i \in 1..Len(es) |-> Quote(es[i].k) \o <<58>> \o ScalarText(es[i].v)], <<44>>) \o <<125>>
    [] OTHER -> ScalarText(v)

JSONStringify(es) ==
  LET vis == JsonEntries(es)
  IN <<123>> \o Join([i \in 1..Len(vis) |-> Quote(vis[i].k) \o <<58>> \o ElementText(vis[i].v)], <<44>>) \o <<125>>

\* ------------------------------------------------------------ base64

\* The character of a 6-bit group; 64 stands for the padding
B64Char(i) ==
  CASE i < 26 -> 65 + i
    [] i >= 26 /\ i < 52 -> 97 + (i - 26)
    [] i >= 52 /\ i < 62 -> 48 + (i - 52)
    [] i = 62 -> 43
    [] i = 63 -> 47
    [] OTHER -> 61

RECURSIVE Sextets(_)
Sextets(b) ==
  CASE Len(b) = 0 -> <<>>
    [] Len(b) = 1 -> <<b[1] \div 4, (b[1] % 4) * 16, 64, 64>>
    [] Len(b) = 2 -> <<b[1] \div 4, (b[1] % 4) * 16 + (b[2] \div 16), (b[2] % 16) * 4, 64>>
    [] OTHER -> <<b[1] \div 4, (b[1] % 4) * 16 + (b[2] \div 16),
                  (b[2] % 16) * 4 + (b[3] \div 64), b[3] % 64>>
                \o Sextets(SubSeq(b, 4, Len(b)))

\* Buffer.from(text).toString('base64')
ToBase64(b) == LET x == Sextets(b) IN [i \in 1..Len(x) |-> B64Char(x[i])]

\* base64UrlEncode: drops '=', turns '+' into '-' and '/' into '_'
base64UrlEncode(b64) ==
  LET kept == SelectSeq(b64, LAMBDA c : c # 61)
  IN [i \in 1..Len(kept) |->
        IF kept[i] = 43 THEN 45 ELSE IF kept[i] = 47 THEN 95 ELSE kept[i]]

HexDigit(d) == IF d < 10 THEN 48 + d ELSE 97 + (d - 10)

RECURSIVE HexText(_)
HexText(b) ==
  IF b = <<>> THEN <<>>
  ELSE <<HexDigit(Head(b) \div 16), HexDigit(Head(b) % 16)>> \o HexText(Tail(b))

\* buffer.toString(encoding) for buffers of ASCII bytes: 'hex' writes two
\* digits per byte, the default (utf8) writes the bytes as characters
BufferToString(bytes, encoding) ==
  IF encoding = Str(<<104, 101, 120>>) THEN HexText(bytes) ELSE bytes

\* ------------------------------------------------------------ names

T_alg == <<97, 108, 103>>
T_typ == <<116, 121, 112>>
T_kid == <<107, 105, 100>>
T_iat == <<105, 97, 116>>
T_exp == <<101, 120, 112>>
T_nbf == <<110, 98, 102>>
T_jti == <<106, 116, 105>>
T_aud == <<97, 117, 100>>
T_iss == <<105, 115, 115>>
T_sub == <<115, 117, 98>>
T_nonce == <<110, 111, 110, 99, 101>>
T_secret == <<115, 101, 99, 114, 101, 116>>
T_algorithm == <<97, 108, 103, 111, 114, 105, 116, 104, 109>>
T_encoding == <<101, 110, 99, 111, 100, 105, 110, 103>>
T_noTimestamp == <<110, 111, 84, 105, 109, 101, 115, 116, 97, 109, 112>>
T_mutatePayload == <<109, 117, 116, 97, 116, 101, 80, 97, 121, 108, 111, 97, 100>>
T_useWorkerThreads == <<117, 115, 101, 87, 111, 114, 107, 101, 114, 84, 104, 114, 101, 97, 100, 115>>
T_expiresIn == <<101, 120, 112, 105, 114, 101, 115, 73, 110>>
T_notBefore == <<110, 111, 116, 66, 101, 102, 111, 114, 101>>
T_header == <<104, 101, 97, 100, 101, 114>>
T_JWT == <<74, 87, 84>>
T_none == <<110, 111, 110, 101>>
T_HS256 == <<72, 83, 50, 53, 54>>
T_HS384 == <<72, 83, 51, 56, 52>>
T_HS512 == <<72, 83, 53, 49, 50>>
T_RS256 == <<82, 83, 50, 53, 54>>
T_RS384 == <<82, 83, 51, 56, 52>>
T_RS512 == <<82, 83, 53, 49, 50>>
T_PS256 == <<80, 83, 50, 53, 54>>
T_PS384 == <<80, 83, 51, 56, 52>>
T_PS512 == <<80, 83, 53, 49, 50>>
T_ES256 == <<69, 83, 50, 53, 54>>
T_ES384 == <<69, 83, 51, 56, 52>>
T_ES512 == <<69, 83, 53, 49, 50>>
T_hex == <<104, 101, 120>>
T_MD5 == <<77, 68, 53>>
T_a == <<97>>
T_j == <<106>>
T_k == <<107>>
T_s == <<115>>
T_x == <<120>>
T_y == <<121>>
T_ab == <<97, 98>>

\* ------------------------------------------------------------ crypto.js, utils.js

\* The algorithm lists of crypto.js
hashAlgorithms == {Str(T_HS256), Str(T_HS384), Str(T_HS512)}
rsaKeyAlgorithms == {Str(T_RS256), Str(T_RS384), Str(T_RS512),
                     Str(T_PS256), Str(T_PS384), Str(T_PS512)}
publicKeyAlgorithms == {Str(T_ES256), Str(T_ES384), Str(T_ES512)}

\* Signatures createSignature may hand back, as the bytes it encodes in
\* base64: none for the algorithm 'none', a digest otherwise.
SignatureBytes(algorithm) ==
  IF algorithm = Str(T_none) THEN {<<>>} ELSE {<<255, 239, 62>>, <<1, 2>>}

\* ------------------------------------------------------------ TokenError

TokenErrorCodes == {"invalidOption", "invalidType", "secretFetchingError", "signError"}

\* ------------------------------------------------------------ encodeHeader

\* The outcome of a function that may throw: err = "" when it returned
Threw(code) == [err |-> code, encoded |-> <<>>, obj |-> <<>>]
Returned(text, es) == [err |-> "", encoded |-> text, obj |-> es]

encodeHeader(alg, kid, additionalHeader, payload, encoding) ==
  IF TypeOf(payload) # "string" /\ TypeOf(payload) # "object"
  THEN Threw("invalidType")
  ELSE LET p == IF IsBuffer(payload) THEN Str(BufferToString(payload.s, encoding)) ELSE payload
           typ == IF TypeOf(p) = "object" THEN Str(T_JWT) ELSE Undef
           header == AssignEntries(<<E(T_alg, alg), E(T_typ, typ), E(T_kid, kid)>>,
                                   OwnEntries(additionalHeader))
       IN Returned(ToBase64(JSONStringify(header)), header)

\* ------------------------------------------------------------ encodePayload

AllDigits(s) == \A i \in 1..Len(s) : s[i] >= 48 /\ s[i] <= 57

RECURSIVE DigitsValue(_)
DigitsValue(s) ==
  IF s = <<>> THEN 0 ELSE DigitsValue(SubSeq(s, 1, Len(s) - 1)) * 10 + (s[Len(s)] - 48)

\* ToNumber(v), as the operand of `payload.iat * 1000`
ToNumber(v) ==
  CASE v.t = "number" -> [nan |-> FALSE, n |-> v.n]
    [] v.t = "boolean" -> [nan |-> FALSE, n |-> v.n]
    [] v.t = "null" -> [nan |-> FALSE, n |-> 0]
    [] v.t = "string" /\ AllDigits(v.s) -> [nan |-> FALSE, n |-> DigitsValue(v.s)]
    [] OTHER -> [nan |-> TRUE, n |-> 0]

\* payload.iat * 1000 || Date.now()
IatMillis(entries, dateNow) ==
  LET x == ToNumber(Get(entries, T_iat))
  IN IF x.nan \/ x.n * 1000 = 0 THEN dateNow ELSE x.n * 1000

\* The object additionalPayload
AdditionalPayload(iat, noTimestamp, expiresIn, notBefore) ==
  LET a1 == IF ~Truthy(noTimestamp) THEN <<E(T_iat, Num(iat \div 1000))>> ELSE <<>>
      a2 == IF Truthy(expiresIn) THEN Put(a1, T_exp, Num((iat + expiresIn.n) \div 1000)) ELSE a1
  IN IF Truthy(notBefore) THEN Put(a2, T_nbf, Num((iat + notBefore.n) \div 1000)) ELSE a2

\* Object.assign(payload, fixedPayload, additionalPayload) and
\* { ...payload, ...fixedPayload, ...additionalPayload } build the same entries
FinalPayload(entries, fixedPayload, additionalPayload) ==
  AssignEntries(AssignEntries(entries, fixedPayload), additionalPayload)

\* Object.assign into the caller's object whatever the option says
MutatesCaller_Always(mutatePayload) == TRUE

\* if (mutatePayload): the merge is written into the caller's object
MutatesCaller(mutatePayload) == Truthy(mutatePayload)

\* err, the encoded segment, the final payload, and the caller's payload
\* object as the call leaves it
encodePayload(payload, encoding, fixedPayload, noTimestamp, expiresIn, notBefore, mutatePayload, dateNow) ==
  LET p == IF IsBuffer(payload) THEN Str(BufferToString(payload.s, encoding)) ELSE payload
  IN IF TypeOf(p) = "string"
     THEN [err |-> "", encoded |-> base64UrlEncode(ToBase64(p.s)), obj |-> <<>>,
           caller |-> payload]
     ELSE IF p.t = "null"
     THEN [err |-> "TypeError", encoded |-> <<>>, obj |-> <<>>, caller |-> payload]
     ELSE LET iat == IatMillis(p.o, dateNow)
              final == FinalPayload(p.o, fixedPayload,
                                    AdditionalPayload(iat, noTimestamp, expiresIn, notBefore))
          IN [err |-> "", encoded |-> base64UrlEncode(ToBase64(JSONStringify(final))),
              obj |-> final,
              caller |-> IF MutatesCaller(mutatePayload) THEN Obj(final) ELSE payload]

\* ------------------------------------------------------------ state

VARIABLES
  supportsWorkerThreads, \* crypto.js: whether the host has worker threads
  now,                   \* Date.now(), in milliseconds
  ticks,                 \* how often the clock has advanced
  options,               \* the options object given to createSigner
  signer,                \* "unbuilt", "InvalidOption" (createSigner threw), "sync", "async"
  pc,                    \* the call: "idle", "awaitSecret", "awaitSignature", "done"
  argPayload,            \* the payload as the caller passed it
  callerPayload,         \* the caller's payload object now
  callback,              \* whether the caller passed a completion callback
  header,                \* the header object of the call
  encodedHeader,         \* the header segment
  encodedPayload,        \* the payload segment
  finalPayload,          \* the object encodePayload serialised
  secretCalls,           \* how often the secret callback has been invoked
  cbCalls,               \* the invocations of the completion callback, in order
  outcome,               \* how the call ended: returned/thrown, or the promise's state
  sigAlgorithm,          \* the algorithm handed to createSignature
  dateNow                \* the Date.now() that encodePayload read

vars == <<supportsWorkerThreads, now, ticks, options, signer, pc, argPayload,
          callerPayload, callback, header, encodedHeader, encodedPayload,
          finalPayload, secretCalls, cbCalls, outcome, sigAlgorithm, dateNow>>

callVars == <<pc, argPayload, callerPayload, callback, header, encodedHeader,
              encodedPayload, finalPayload, secretCalls, cbCalls, outcome, sigAlgorithm,
              dateNow>>

\* ------------------------------------------------------------ createSigner

\* const { secret, algorithm, ... } = { algorithm: 'HS256', ...options }
Destructured(opts) == AssignEntries(<<E(T_algorithm, Str(T_HS256))>>, opts)
Option(opts, name) == Get(Destructured(opts), name)

\* The option checks of createSigner, in order: TRUE when one of them throws
\* the InvalidOption TokenError
ThrowsInvalidOption(opts) ==
  LET o(name) == Option(opts, name)
      notString(v) == Truthy(v) /\ TypeOf(v) # "string"
      notSpan(v) == Truthy(v) /\ (TypeOf(v) # "number" \/ v.n < 0)
  IN \/ /\ o(T_algorithm) # Str(T_none)
        /\ o(T_algorithm) \notin publicKeyAlgorithms
        /\ o(T_algorithm) \notin rsaKeyAlgorithms
        /\ o(T_algorithm) \notin hashAlgorithms
     \/ ~Truthy(o(T_secret))
     \/ TypeOf(o(T_secret)) \notin {"string", "object", "function"}
     \/ notString(o(T_encoding))
     \/ notSpan(o(T_expiresIn))
     \/ notSpan(o(T_notBefore))
     \/ notString(o(T_jti))
     \/ (Truthy(o(T_aud)) /\ TypeOf(o(T_aud)) # "string" /\ ~IsArray(o(T_aud)))
     \/ notString(o(T_iss))
     \/ notString(o(T_sub))
     \/ notString(o(T_nonce))
     \/ notString(o(T_kid))
     \/ (Truthy(o(T_header)) /\ TypeOf(o(T_header)) # "object")

\* const fixedPayload = { jti, aud, iss, sub, nonce }
FixedPayload(opts) ==
  <<E(T_jti, Option(opts, T_jti)), E(T_aud, Option(opts, T_aud)),
    E(T_iss, Option(opts, T_iss)), E(T_sub, Option(opts, T_sub)),
    E(T_nonce, Option(opts, T_nonce))>>

\* The selection with the host's support for worker threads left out
ReturnsSyncSigner_IgnoringHost(opts, workerThreads) ==
  /\ TypeOf(Option(opts, T_secret)) # "function"
  /\ ~Truthy(Option(opts, T_useWorkerThreads))

\* The test that selects the synchronous signJwt
ReturnsSyncSigner(opts, workerThreads) ==
  /\ TypeOf(Option(opts, T_secret)) # "function"
  /\ (~Truthy(Option(opts, T_useWorkerThreads)) \/ ~workerThreads)

\* ------------------------------------------------------------ inputs

OptionNames ==
  {T_secret, T_algorithm, T_encoding, T_noTimestamp, T_mutatePayload,
   T_useWorkerThreads, T_expiresIn, T_notBefore, T_jti, T_aud, T_iss, T_sub,
   T_nonce, T_kid, T_header}

\* Values of every kind an option may be given
SampleValues ==
  {Undef, Null, Bool(TRUE), Bool(FALSE), Num(0), Num(1500), Num(-1),
   Str(<<>>), Str(T_x), Str(T_hex), Str(T_none), Str(T_MD5), Buf(T_ab),
   Obj(<<>>), Obj(<<E(T_alg, Str(T_none))>>), Obj(<<E(T_typ, Str(T_x)), E(T_kid, Str(T_y))>>),
   Arr(<<Str(T_a)>>), Arr(<<Num(1)>>), Func}

\* A signer with a string secret and one more option of any value
OneOptionSets ==
  {Put(<<E(T_secret, Str(T_s))>>, name, v) : name \in OptionNames, v \in SampleValues}

\* Options that pass the checks, in combination
Features ==
  {<<E(T_secret, Func)>>,
   <<E(T_useWorkerThreads, Bool(TRUE))>>,
   <<E(T_mutatePayload, Bool(TRUE))>>,
   <<E(T_noTimestamp, Bool(TRUE))>>,
   <<E(T_expiresIn, Num(1500)), E(T_notBefore, Num(2700))>>,
   <<E(T_jti, Str(T_j)), E(T_aud, Arr(<<Str(T_a)>>))>>}

RECURSIVE Combine(_, _)
Combine(base, fs) ==
  IF fs = {} THEN base
  ELSE LET f == CHOOSE x \in fs : TRUE
       IN Combine(AssignEntries(base, f), fs \ {f})

CombinedOptionSets == {Combine(<<E(T_secret, Str(T_s))>>, fs) : fs \in SUBSET Features}

OptionSets == {<<>>} \cup OneOptionSets \cup CombinedOptionSets

Payloads ==
  {Undef, Num(7), Null, Str(T_ab), Buf(T_ab),
   Obj(<<>>),
   Obj(<<E(T_a, Num(1)), E(T_jti, Str(T_x))>>),
   Obj(<<E(T_iat, Num(0))>>),
   Obj(<<E(T_iat, Num(5)), E(T_exp, Num(1)), E(T_aud, Str(T_y)), E(T_nbf, Num(1))>>)}

\* ------------------------------------------------------------ behaviour

NoOutcome == [kind |-> "none", value |-> <<>>, error |-> ""]

Init ==
  /\ supportsWorkerThreads \in BOOLEAN
  /\ now = 2500
  /\ ticks = 0
  /\ options = <<>>
  /\ signer = "unbuilt"
  /\ pc = "idle"
  /\ argPayload = Undef
  /\ callerPayload = Undef
  /\ callback = FALSE
  /\ header = <<>>
  /\ encodedHeader = <<>>
  /\ encodedPayload = <<>>
  /\ finalPayload = <<>>
  /\ secretCalls = 0
  /\ cbCalls = <<>>
  /\ outcome = NoOutcome
  /\ sigAlgorithm = Undef
  /\ dateNow = 0

\* The clock advances
Tick ==
  /\ ticks < MaxTicks
  /\ ticks' = ticks + 1
  /\ now' = now + 700
  /\ UNCHANGED <<supportsWorkerThreads, options, signer>>
  /\ UNCHANGED callVars

\* createSigner(opts)
createSigner(opts) ==
  /\ signer = "unbuilt"
  /\ options' = opts
  /\ signer' = IF ThrowsInvalidOption(opts) THEN "InvalidOption"
               ELSE IF ReturnsSyncSigner(opts, supportsWorkerThreads) THEN "sync"
               ELSE "async"
  /\ UNCHANGED <<supportsWorkerThreads, now, ticks>>
  /\ UNCHANGED callVars

\* ------------------------------------------------------------ signJwt

\* What createSignature may do: throw, or hand back a base64 signature
SignatureOutcomes(algorithm) ==
  {[err |-> "", b64 |-> ToBase64(b)] : b \in SignatureBytes(algorithm)}
  \cup (IF algorithm = Str(T_none) THEN {} ELSE {[err |-> "signError", b64 |-> <<>>]})

\* `${encodedHeader}.${encodedPayload}.${encodedSignature}`
Token(h, p, sig) == h \o <<46>> \o p \o <<46>> \o sig

Thrown(code) == [kind |-> "thrown", value |-> <<>>, error |-> code]
ReturnedToken(t) == [kind |-> "returned", value |-> t, error |-> ""]
Pending == [kind |-> "pending", value |-> <<>>, error |-> ""]
Resolved(t) == [kind |-> "resolved", value |-> t, error |-> ""]
ResolvedCallbackResult == [kind |-> "resolvedCallbackResult", value |-> <<>>, error |-> ""]
Rejected(code) == [kind |-> "rejected", value |-> <<>>, error |-> code]

CallHeader(payload) ==
  encodeHeader(Option(options, T_algorithm), Option(options, T_kid),
               Option(options, T_header), payload, Option(options, T_encoding))

CallPayload(payload) ==
  encodePayload(payload, Option(options, T_encoding), FixedPayload(options),
                Option(options, T_noTimestamp), Option(options, T_expiresIn),
                Option(options, T_notBefore), Option(options, T_mutatePayload), now)

\* The synchronous signJwt(payload)
signJwtSync(payload) ==
  /\ signer = "sync"
  /\ pc = "idle"
  /\ pc' = "done"
  /\ argPayload' = payload
  /\ callback' = FALSE
  /\ UNCHANGED <<secretCalls, cbCalls>>
  /\ LET h == CallHeader(payload)
         p == CallPayload(payload)
     IN IF h.err # ""
        THEN /\ outcome' = Thrown(h.err)
             /\ callerPayload' = payload
             /\ UNCHANGED <<header, encodedHeader, encodedPayload, finalPayload, sigAlgorithm,
                            dateNow>>
        ELSE /\ header' = h.obj
             /\ encodedHeader' = h.encoded
             /\ IF p.err # ""
                THEN /\ outcome' = Thrown(p.err)
                     /\ callerPayload' = payload
                     /\ UNCHANGED <<encodedPayload, finalPayload, sigAlgorithm, dateNow>>
                ELSE /\ encodedPayload' = p.encoded
                     /\ dateNow' = now
                     /\ finalPayload' = p.obj
                     /\ callerPayload' = p.caller
                     /\ sigAlgorithm' = Option(options, T_algorithm)
                     /\ \E r \in SignatureOutcomes(Option(options, T_algorithm)) :
                          outcome' = IF r.err # "" THEN Thrown(r.err)
                                     ELSE ReturnedToken(Token(h.encoded, p.encoded,
                                                              base64UrlEncode(r.b64)))
  /\ UNCHANGED <<supportsWorkerThreads, now, ticks, options, signer>>

\* The catch block of the asynchronous signJwt, entered with error e after the
\* callback invocations `calls`: the callback invocations and the promise's
\* state it may leave (the callback returns or throws)
Catch(calls, e, hasCallback) ==
  IF hasCallback
  THEN {[cb |-> Append(calls, [err |-> e, token |-> <<>>]), out |-> ResolvedCallbackResult],
        [cb |-> Append(calls, [err |-> e, token |-> <<>>]), out |-> Rejected("callbackError")]}
  ELSE {[cb |-> calls, out |-> Rejected(e)]}

\* The body after the secret is known: encodePayload, then createSignature is
\* started and awaited
EncodeAndStartSignature(payload, hasCallback) ==
  LET p == CallPayload(payload)
  IN IF p.err # ""
     THEN /\ \E c \in Catch(<<>>, p.err, hasCallback) : cbCalls' = c.cb /\ outcome' = c.out
          /\ pc' = "done"
          /\ callerPayload' = payload
          /\ UNCHANGED <<encodedPayload, finalPayload, sigAlgorithm, dateNow>>
     ELSE /\ encodedPayload' = p.encoded
          /\ dateNow' = now
          /\ finalPayload' = p.obj
          /\ callerPayload' = p.caller
          /\ sigAlgorithm' = Option(options, T_algorithm)
          /\ pc' = "awaitSignature"
          /\ outcome' = Pending
          /\ UNCHANGED cbCalls

\* The asynchronous signJwt(payload, callback), up to its first await
signJwtAsync(payload, hasCallback) ==
  /\ signer = "async"
  /\ pc = "idle"
  /\ argPayload' = payload
  /\ callback' = hasCallback
  /\ LET h == CallHeader(payload)
     IN IF h.err # ""
        THEN /\ \E c \in Catch(<<>>, h.err, hasCallback) : cbCalls' = c.cb /\ outcome' = c.out
             /\ pc' = "done"
             /\ callerPayload' = payload
             /\ UNCHANGED <<header, encodedHeader, encodedPayload, finalPayload,
                            secretCalls, sigAlgorithm, dateNow>>
        ELSE /\ header' = h.obj
             /\ encodedHeader' = h.encoded
             /\ IF TypeOf(Option(options, T_secret)) = "function"
                THEN /\ secretCalls' = secretCalls + 1
                     /\ pc' = "awaitSecret"
                     /\ outcome' = Pending
                     /\ callerPayload' = payload
                     /\ UNCHANGED <<encodedPayload, finalPayload, cbCalls, sigAlgorithm, dateNow>>
                ELSE /\ EncodeAndStartSignature(payload, hasCallback)
                     /\ UNCHANGED secretCalls
  /\ UNCHANGED <<supportsWorkerThreads, now, ticks, options, signer>>

\* getAsyncSecret settles with the secret
SecretFetched ==
  /\ pc = "awaitSecret"
  /\ EncodeAndStartSignature(callerPayload, callback)
  /\ UNCHANGED <<argPayload, callback, header, encodedHeader, secretCalls>>
  /\ UNCHANGED <<supportsWorkerThreads, now, ticks, options, signer>>

\* getAsyncSecret fails: the error is wrapped and thrown to the catch block
SecretFailed ==
  /\ pc = "awaitSecret"
  /\ \E c \in Catch(<<>>, "secretFetchingError", callback) :
       cbCalls' = c.cb /\ outcome' = c.out
  /\ pc' = "done"
  /\ UNCHANGED <<argPayload, callerPayload, callback, header, encodedHeader,
                 encodedPayload, finalPayload, secretCalls, sigAlgorithm, dateNow>>
  /\ UNCHANGED <<supportsWorkerThreads, now, ticks, options, signer>>

\* createSignature settles with a signature: the token is assembled, handed
\* to the callback if there is one, and returned
SignatureCreated ==
  /\ pc = "awaitSignature"
  /\ \E r \in SignatureOutcomes(sigAlgorithm) :
       /\ r.err = ""
       /\ LET rv == Token(encodedHeader, encodedPayload, base64UrlEncode(r.b64))
              called == <<[err |-> "", token |-> rv]>>
          IN IF callback
             THEN \/ cbCalls' = called /\ outcome' = Resolved(rv)
                  \/ \E c \in Catch(called, "callbackError", callback) :
                       cbCalls' = c.cb /\ outcome' = c.out
             ELSE cbCalls' = cbCalls /\ outcome' = Resolved(rv)
  /\ pc' = "done"
  /\ UNCHANGED <<argPayload, callerPayload, callback, header, encodedHeader,
                 encodedPayload, finalPayload, secretCalls, sigAlgorithm, dateNow>>
  /\ UNCHANGED <<supportsWorkerThreads, now, ticks, options, signer>>

\* createSignature fails
SignatureFailed ==
  /\ pc = "awaitSignature"
  /\ \E r \in SignatureOutcomes(sigAlgorithm) :
       /\ r.err # ""
       /\ \E c \in Catch(<<>>, r.err, callback) : cbCalls' = c.cb /\ outcome' = c.out
  /\ pc' = "done"
  /\ UNCHANGED <<argPayload, callerPayload, callback, header, encodedHeader,
                 encodedPayload, finalPayload, secretCalls, sigAlgorithm, dateNow>>
  /\ UNCHANGED <<supportsWorkerThreads, now, ticks, options, signer>>

Next ==
  \/ Tick
  \/ \E opts \in OptionSets : createSigner(opts)
  \/ \E payload \in Payloads : signJwtSync(payload)
  \/ \E payload \in Payloads, hasCallback \in BOOLEAN : signJwtAsync(payload, hasCallback)
  \/ SecretFetched
  \/ SecretFailed
  \/ SignatureCreated
  \/ SignatureFailed

Spec == Init /\ [][Next]_vars

\* ------------------------------------------------------------ properties

FixedNames == {T_jti, T_aud, T_iss, T_sub, T_nonce}
TemporalNames == {T_iat, T_exp, T_nbf}

\* The call handed a token back (directly, or by resolving its promise)
HasToken == outcome.kind \in {"returned", "resolved"}

\* The call encoded a structured payload into the token it handed back
StructuredEncoded == argPayload.t = "object" /\ HasToken

\* The token split at every '.'
Segments(token) ==
  LET dots == {i \in 1..Len(token) : token[i] = 46}
      cut(n) == IF n = 0 THEN 0
                ELSE IF n > Cardinality(dots) THEN Len(token) + 1
                ELSE CHOOSE i \in dots : Cardinality({d \in dots : d < i}) = n - 1
  IN [n \in 1..(Cardinality(dots) + 1) |-> SubSeq(token, cut(n - 1) + 1, cut(n) - 1)]

UrlSafe(segment) == \A i \in 1..Len(segment) : segment[i] \notin {43, 47, 61}

\* The temporal claims the signer computed for this call
Computed ==
  AdditionalPayload(IatMillis(argPayload.o, dateNow), Option(options, T_noTimestamp),
                    Option(options, T_expiresIn), Option(options, T_notBefore))

\* A fixed claim counts as configured when its option holds a non-empty value
Configured(name) == Truthy(Option(options, name))

\* The claim k of the merge: caller payload < configured fixed claims <
\* computed temporal claims
MergedClaim(k) ==
  IF HasKey(Computed, k) THEN Get(Computed, k)
  ELSE IF k \in FixedNames /\ Configured(k) THEN Option(options, k)
  ELSE Get(argPayload.o, k)

\* C1: the claims object encoded for a structured payload is the key-wise
\* merge caller payload < configured fixed claims < computed temporal claims.
C1_EncodedClaimsAreMerge ==
  StructuredEncoded =>
    \A k \in Keys(argPayload.o) \cup Keys(finalPayload) \cup FixedNames \cup TemporalNames :
      Get(finalPayload, k) = MergedClaim(k)

\* C2: a fixed claim that is not configured on the signer leaves the caller's
\* value under that name unchanged, in the encoded payload and (in
\* mutatePayload mode) in the caller's object.
C2_UnconfiguredClaimKept ==
  StructuredEncoded =>
    \A k \in FixedNames :
      Option(options, k) = Undef =>
        /\ Get(finalPayload, k) = Get(argPayload.o, k)
        /\ Get(callerPayload.o, k) = Get(argPayload.o, k)

\* C3: a token is three segments joined by '.', each of them URL-safe
\* unpadded base64 (no '+', '/' or '=').
C3_TokenSegmentsUrlSafe ==
  HasToken =>
    /\ Len(Segments(outcome.value)) = 3
    /\ \A i \in 1..Len(Segments(outcome.value)) : UrlSafe(Segments(outcome.value)[i])

StaticSecret == TypeOf(Option(options, T_secret)) # "function"
OffloadRequested == Truthy(Option(options, T_useWorkerThreads))
Built == signer \in {"sync", "async"}

\* A deferred result: pending, then resolved with the token or rejected with
\* a TokenError
DeferredTokenOrTokenError ==
  \/ outcome.kind \in {"none", "pending"}
  \/ outcome.kind = "resolved" /\ Len(Segments(outcome.value)) = 3
  \/ outcome.kind = "rejected" /\ outcome.error \in TokenErrorCodes

C5_CallerPayloadFrame ==
  pc # "idle" =>
    /\ ~Truthy(Option(options, T_mutatePayload)) => callerPayload = argPayload
    /\ (Truthy(Option(options, T_mutatePayload)) /\ HasToken /\ argPayload.t = "object") =>
         /\ callerPayload.t = "object"
         /\ JsonEntries(callerPayload.o) = JsonEntries(finalPayload)
         /\ Segments(outcome.value)[2] =
              base64UrlEncode(ToBase64(JSONStringify(callerPayload.o)))

\* A mutatePayload call succeeded and changed the caller's object
C5_Witness ==
  /\ Truthy(Option(options, T_mutatePayload))
  /\ HasToken
  /\ argPayload.t = "object"
  /\ Configured(T_jti)
  /\ Get(callerPayload.o, T_jti) = Option(options, T_jti)
  /\ Get(callerPayload.o, T_iat).t = "number"
  /\ JsonEntries(callerPayload.o) # JsonEntries(argPayload.o)

Span(name) == IF Truthy(Option(options, name)) THEN Option(options, name).n ELSE 0

\* C6: the iat baseline is the payload's numeric iat whenever one is present
\* (0 included) and the current time otherwise; iat, exp and nbf are the
\* floors of baseline, baseline + expiresIn and baseline + notBefore.
C6_IatBaseline ==
  StructuredEncoded =>
    LET given == Get(argPayload.o, T_iat)
        baseline == IF given.t = "number" THEN given.n * 1000 ELSE dateNow
    IN /\ ~Truthy(Option(options, T_noTimestamp)) =>
            Get(finalPayload, T_iat) = Num(baseline \div 1000)
       /\ Truthy(Option(options, T_expiresIn)) =>
            Get(finalPayload, T_exp) = Num((baseline + Span(T_expiresIn)) \div 1000)
       /\ Truthy(Option(options, T_notBefore)) =>
            Get(finalPayload, T_nbf) = Num((baseline + Span(T_notBefore)) \div 1000)

\* An option counts as given when it holds a non-empty value (createSigner
\* treats undefined, null, false, 0 and '' as an option left out)
Given(name) == Truthy(Option(options, name))

ArrayOfStrings(v) == v.t = "array" /\ \A i \in 1..Len(v.o) : v.o[i].v.t = "string"

\* The malformed options C7 lists
Malformed ==
  \/ Option(options, T_algorithm) \notin
       hashAlgorithms \cup rsaKeyAlgorithms \cup publicKeyAlgorithms \cup {Str(T_none)}
  \/ ~Given(T_secret)
  \/ TypeOf(Option(options, T_secret)) \notin {"string", "object", "function"}
  \/ \E name \in {T_encoding, T_jti, T_iss, T_sub, T_nonce, T_kid} :
       Given(name) /\ Option(options, name).t # "string"
  \/ \E name \in {T_expiresIn, T_notBefore} :
       Given(name) /\ (Option(options, name).t # "number" \/ Option(options, name).n < 0)
  \/ Given(T_aud) /\ Option(options, T_aud).t # "string" /\ ~ArrayOfStrings(Option(options, T_aud))
  \/ Given(T_header) /\ TypeOf(Option(options, T_header)) # "object"

\* C7: createSigner throws InvalidOption and returns no signer for any
\* malformed option; with no algorithm option the signer uses HS256.
C7_MalformedOptionRejected ==
  signer # "unbuilt" =>
    /\ Malformed => signer = "InvalidOption"
    /\ (~HasKey(options, T_algorithm) /\ sigAlgorithm # Undef) => sigAlgorithm = Str(T_HS256)

\* C8: a payload that is neither text, bytes nor a structured mapping fails
\* with the InvalidType TokenError through the call's own convention, and the
\* asynchronous signer never invokes the secret callback for it.
C8_InvalidPayloadType ==
  (pc # "idle" /\ argPayload.t \notin {"string", "buffer", "object"}) =>
    /\ secretCalls = 0
    /\ signer = "sync" => outcome = Thrown("invalidType")
    /\ (signer = "async" /\ ~callback) => outcome = Rejected("invalidType")
    /\ (signer = "async" /\ callback) =>
         (Len(cbCalls) >= 1 /\ cbCalls[1] = [err |-> "invalidType", token |-> <<>>])

\* C9: with a completion callback, the callback is invoked exactly once over
\* the whole call, with (null, token) or with (error).
C9_CallbackExactlyOnce ==
  callback =>
    /\ Len(cbCalls) <= 1
    /\ pc = "done" => Len(cbCalls) = 1

\* C10: the alg of the encoded header is the algorithm the signer was built
\* with, which is the algorithm the signature was computed with.
C10_HeaderAlgIsSignerAlgorithm ==
  HasToken =>
    /\ Get(header, T_alg) = Option(options, T_algorithm)
    /\ sigAlgorithm = Option(options, T_algorithm)
    /\ Segments(outcome.value)[1] = encodedHeader
    /\ encodedHeader = ToBase64(JSONStringify(header))

====
